---- MODULE Spec2Model ----
(***************************************************************************)
(* The queue / idle-polling crawler of jonsabados/crawler: NewCrawler with *)
(* its workers, the detached admission goroutines of urlTracker.appendURL, *)
(* the idle poller of idleWorkerTracker.Await and the goroutine that sends *)
(* on the stop channel.  Every goroutine is a process of the model; a step *)
(* of the model is one statement (or one critical section) of one          *)
(* goroutine, and the steps interleave freely: the Go scheduler promises   *)
(* nothing about how long a runnable goroutine waits.                      *)
(*                                                                         *)
(* Time is the age of the idle map's timestamps, counted in clock ticks    *)
(* and saturating at the debounce threshold: time.Now().Sub(idleTime) <    *)
(* idleThreshold is age < IdleThreshold.                                   *)
(***************************************************************************)
EXTENDS Integers, Sequences, FiniteSets, TLC

\* ------------------------------------------------------------------ bounds
MaxWorkers == 2
IdleThreshold == 1

\* ------------------------------------------------------------ link graphs
LinkTypeA == "a"
LinkTypeImg == "img"

Link(t, u) == [LinkType |-> t, LinkTarget |-> u]

startingURL == "start"

URLs == {"start", "A", "B", "Z", "W", "IMG"}

NoPages == [u \in {} |-> <<>>]

\* The link structure of Test_NewCrawler_HappyPath, cut to three pages: two
\* pages link to B, a page links back to the seed, W fails the predicate
\* and IMG is an embedded resource.
TestLinkStructure ==
  [u \in {"start", "A", "B"} |->
     CASE u = "start" -> << Link(LinkTypeA, "A"), Link(LinkTypeImg, "IMG"),
                            Link(LinkTypeA, "B") >>
       [] u = "A"     -> << Link(LinkTypeA, "B"), Link(LinkTypeA, "start") >>
       [] u = "B"     -> << Link(LinkTypeA, "W") >> ]

\* More new links on one page than the queue has room for; A is a page
\* without links, B and Z have no page: the reader returns an error.
FanOutLinkStructure ==
  [u \in {"start", "A"} |->
     CASE u = "start" -> << Link(LinkTypeA, "A"), Link(LinkTypeA, "B"),
                            Link(LinkTypeA, "Z") >>
       [] u = "A"     -> << >> ]

\* NoPages: the read of the seed itself fails.
LinkStructures == {TestLinkStructure, FanOutLinkStructure, NoPages}

\* shouldIncludeMock of the tests
shouldIncludeURL(u) == u # "W"

\* ---------------------------------------------------------------- state
VARIABLES
  workerCount,    \* NewCrawler's workerCount
  linkStructure,  \* what the reader returns: a page's links, or an error
  orchPc,         \* the crawler function: where it is
  startI,         \* i of its worker start loop
  urlsToProcess,  \* the buffered channel's contents
  closed,         \* whether close(urlsToProcess) has run
  urlsSeen,       \* urlTracker.urlsSeen
  sends,          \* per URL, the goroutines of appendURL blocked in the send
  idleMap,        \* idleWorkerTracker.idleMap: Absent, or the timestamp's age
  wPc, wUrl, wIdx,\* a worker: where it is, its u, its index into docLinks
  ret,            \* the result map
  fetchCount,     \* per URL, the calls of extractLinks so far
  detPc, detI, allDone, \* the goroutine of Await
  detSaw,         \* what IdleStats returned to the current poll, per worker
  stopPc,         \* the goroutine sending on stopSignal
  result, resultNil, err, \* what the crawler function returned
  panicked,       \* a send on the closed channel has panicked
  \* --- the recursive crawler: NewCrawler over workerPool and crawl
  recPc,          \* its crawler function: where it is
  recStartI,      \* i of startWorkerPool's start loop
  recStopI,       \* the index of stopWorkers' loop over stopSignals
  ctxDone,        \* the context has been cancelled: stop() was called
  visited,        \* visitedURLTracker.urlsSeen
  siteMap,        \* siteMap.siteMap
  readCount,      \* per URL, the calls of readDocument so far
  taskPc,         \* per URL, the call of crawl for it: where it is
  taskIdx,        \* its index into res
  linksToCrawl,   \* its linksToCrawl
  taskErr,        \* what it returned
  poolPc,         \* a pool worker: where it is
  poolReq,        \* the url of the workRequest it holds
  recResult, recErr, \* what the crawler function returned
  \* --- the string-list crawler of crawl.go
  listResult      \* the slice it returned: how often each URL stands in it

vars == << workerCount, linkStructure, orchPc, startI, urlsToProcess, closed,
           urlsSeen, sends, idleMap, wPc, wUrl, wIdx, ret, fetchCount,
           detPc, detI, allDone, detSaw, stopPc, result, resultNil, err,
           panicked, recPc, recStartI, recStopI, ctxDone, visited, siteMap,
           readCount, taskPc, taskIdx, linksToCrawl, taskErr, poolPc, poolReq,
           recResult, recErr, listResult >>

\* the state of the recursive crawler
recVars == << recPc, recStartI, recStopI, ctxDone, visited, siteMap,
              readCount, taskPc, taskIdx, linksToCrawl, taskErr, poolPc,
              poolReq, recResult, recErr >>

\* the state of the queue / idle-polling crawler
queueVars == << orchPc, startI, urlsToProcess, closed, urlsSeen, sends,
                idleMap, wPc, wUrl, wIdx, ret, fetchCount, detPc, detI,
                allDone, detSaw, stopPc, result, resultNil, err, panicked >>

WorkerIds == 0 .. (MaxWorkers - 1)
\* the pool of the recursive crawler holds up to MaxWorkers + 1 workers
PoolIds == 0 .. MaxWorkers
Workers == 0 .. (workerCount - 1)
Absent == -1
EmptyMap == [u \in {} |-> <<>>]

\* ------------------------------------------------------ idleWorkerTracker
MarkBusy(m, workerNo) == [m EXCEPT ![workerNo] = Absent]

\* MarkIdle stamping every entry of the map
MarkIdleAll(m, workerNo) == [w \in DOMAIN m |-> 0]

MarkIdle(m, workerNo) == [m EXCEPT ![workerNo] = 0]

\* IdleStats: (age of the timestamp, isIdle)
IdleStats(m, workerNo) == << m[workerNo], m[workerNo] # Absent >>

\* the poll loop's body with allDone set again by a worker idle long enough
PollWorkerLastWins(done, stats) ==
  IF ~stats[2] THEN FALSE
  ELSE IF stats[1] < IdleThreshold THEN FALSE
  ELSE TRUE

\* the body of the poll loop for one worker: the new value of allDone
PollWorker(done, stats) ==
  IF ~stats[2] THEN FALSE
  ELSE IF stats[1] < IdleThreshold THEN FALSE
  ELSE done

\* ------------------------------------------------------------- urlTracker
newURLTracker(url) == {url}

\* appendURL without the look-up in urlsSeen
appendURLUnchecked(seen, snd, url) ==
  [seen |-> seen \cup {url}, sends |-> [snd EXCEPT ![url] = @ + 1]]

\* appendURL marking the URL seen without spawning the send
appendURLMarkOnly(seen, snd, url) == [seen |-> seen \cup {url}, sends |-> snd]

\* appendURL under its lock: the seen set and the pending sends afterwards
appendURL(seen, snd, url) ==
  IF url \notin seen
    THEN [seen |-> seen \cup {url}, sends |-> [snd EXCEPT ![url] = @ + 1]]
    ELSE [seen |-> seen, sends |-> snd]

IsHyperlink(link) == link.LinkType = LinkTypeA

\* ret[u] keeping the hyperlinks of docLinks only
StoreHyperlinks(m, u, docLinks) ==
  [x \in (DOMAIN m) \cup {u} |->
     IF x = u THEN SelectSeq(docLinks, IsHyperlink) ELSE m[x]]

\* ret[u] = docLinks
StoreLinks(m, u, docLinks) ==
  [x \in (DOMAIN m) \cup {u} |-> IF x = u THEN docLinks ELSE m[x]]

\* ----------------------------------------------------------------- Init
\* NewCrawler takes any workerCount the caller passes, 0 included: nothing
\* in it or in main checks the flag's value
Init ==
  /\ workerCount \in 0 .. MaxWorkers
  /\ linkStructure \in LinkStructures
  /\ orchPc = "start"
  /\ startI = 0
  /\ urlsToProcess = << >>
  /\ closed = FALSE
  /\ urlsSeen = newURLTracker(startingURL)
  /\ sends = [u \in URLs |-> 0]
  /\ idleMap = [w \in WorkerIds |-> Absent]
  /\ wPc = [w \in WorkerIds |-> "notStarted"]
  /\ wUrl = [w \in WorkerIds |-> ""]
  /\ wIdx = [w \in WorkerIds |-> 0]
  /\ ret = EmptyMap
  /\ fetchCount = [u \in URLs |-> 0]
  /\ detPc = "notStarted"
  /\ detI = 0
  /\ allDone = FALSE
  /\ detSaw = [w \in WorkerIds |-> "unread"]
  /\ stopPc = "idle"
  /\ result = EmptyMap
  /\ resultNil = TRUE
  /\ err = ""
  /\ panicked = FALSE
  /\ recPc = "start"
  /\ recStartI = 0
  /\ recStopI = 0
  /\ ctxDone = FALSE
  /\ visited = newURLTracker(startingURL)
  /\ siteMap = EmptyMap
  /\ readCount = [u \in URLs |-> 0]
  /\ taskPc = [u \in URLs |-> "none"]
  /\ taskIdx = [u \in URLs |-> 0]
  /\ linksToCrawl = [u \in URLs |-> {}]
  /\ taskErr = [u \in URLs |-> ""]
  /\ poolPc = [w \in PoolIds |-> "notStarted"]
  /\ poolReq = [w \in PoolIds |-> ""]
  /\ recResult = EmptyMap
  /\ recErr = ""
  /\ listResult = [u \in URLs |-> 0]

orchVars == << orchPc, startI, result, resultNil, err >>
workerVars == << wPc, wUrl, wIdx >>
detVars == << detPc, detI, allDone, detSaw >>
confVars == << workerCount, linkStructure >>

\* ---------------------------------------------------- the crawler function
\* the start loop of the recursive crawler: i <= workerCount
StartWorkerInclusive ==
  /\ ~panicked
  /\ orchPc = "start"
  /\ startI <= workerCount
  /\ startI \in WorkerIds
  /\ idleMap' = MarkIdle(idleMap, startI)
  /\ wPc' = [wPc EXCEPT ![startI] = "recv"]
  /\ startI' = startI + 1
  /\ UNCHANGED << confVars, listResult, recVars, orchPc, urlsToProcess, closed, urlsSeen, sends,
                  wUrl, wIdx, ret, fetchCount, detVars, stopPc, result,
                  resultNil, err, panicked >>

\* for i := 0; i < workerCount; i++ { idleMap.MarkIdle(i); startWorker(i) }
StartWorker ==
  /\ ~panicked
  /\ orchPc = "start"
  /\ startI < workerCount
  /\ idleMap' = MarkIdle(idleMap, startI)
  /\ wPc' = [wPc EXCEPT ![startI] = "recv"]
  /\ startI' = startI + 1
  /\ UNCHANGED << confVars, listResult, recVars, orchPc, urlsToProcess, closed, urlsSeen, sends,
                  wUrl, wIdx, ret, fetchCount, detVars, stopPc, result,
                  resultNil, err, panicked >>

\* urlsToProcess <- startingURL: with workerCount = 0 the channel is
\* unbuffered and no worker receives, the send never completes
Seed ==
  /\ ~panicked
  /\ orchPc = "start"
  /\ startI = workerCount
  /\ Len(urlsToProcess) < workerCount
  /\ urlsToProcess' = Append(urlsToProcess, startingURL)
  /\ orchPc' = "await"
  /\ UNCHANGED << confVars, listResult, recVars, startI, closed, urlsSeen, sends, idleMap,
                  workerVars, ret, fetchCount, detVars, stopPc, result,
                  resultNil, err, panicked >>

\* complete, cancel := idleMap.Await(workerCount, idleThreshold)
Await ==
  /\ ~panicked
  /\ orchPc = "await"
  /\ detPc' = "select"
  /\ orchPc' = "select"
  /\ UNCHANGED << confVars, listResult, recVars, startI, urlsToProcess, closed, urlsSeen, sends,
                  idleMap, workerVars, ret, fetchCount, detI, allDone, detSaw,
                  stopPc, result, resultNil, err, panicked >>

\* close(urlsToProcess) and return without the receive from complete
CompleteUnsignalled ==
  /\ ~panicked
  /\ orchPc = "select"
  /\ closed' = TRUE
  /\ orchPc' = "returnRet"
  /\ UNCHANGED << confVars, listResult, recVars, startI, urlsToProcess, urlsSeen, sends, idleMap,
                  workerVars, ret, fetchCount, detVars, stopPc, result,
                  resultNil, err, panicked >>

\* case <-complete: close(urlsToProcess)    (the poller's complete <- true)
Complete ==
  /\ ~panicked
  /\ orchPc = "select"
  /\ detPc = "complete"
  /\ detPc' = "done"
  /\ closed' = TRUE
  /\ orchPc' = "returnRet"
  /\ UNCHANGED << confVars, listResult, recVars, startI, urlsToProcess, urlsSeen, sends, idleMap,
                  workerVars, ret, fetchCount, detI, allDone, detSaw, stopPc,
                  result, resultNil, err, panicked >>

\* return ret, nil
ReturnRet ==
  /\ ~panicked
  /\ orchPc = "returnRet"
  /\ result' = ret
  /\ resultNil' = FALSE
  /\ err' = ""
  /\ orchPc' = "returned"
  /\ UNCHANGED << confVars, listResult, recVars, startI, urlsToProcess, closed, urlsSeen, sends,
                  idleMap, workerVars, ret, fetchCount, detVars, stopPc,
                  panicked >>

\* case <-stopSignal: close(urlsToProcess)   (the stopper's stop <- true)
Stop ==
  /\ ~panicked
  /\ orchPc = "select"
  /\ stopPc = "sending"
  /\ stopPc' = "sent"
  /\ closed' = TRUE
  /\ orchPc' = "cancel"
  /\ UNCHANGED << confVars, listResult, recVars, startI, urlsToProcess, urlsSeen, sends, idleMap,
                  workerVars, ret, fetchCount, detVars, result, resultNil,
                  err, panicked >>

\* cancel <- true, received by the poller's select
Cancel ==
  /\ ~panicked
  /\ orchPc = "cancel"
  /\ detPc = "select"
  /\ detPc' = "done"
  /\ orchPc' = "returnErr"
  /\ UNCHANGED << confVars, listResult, recVars, startI, urlsToProcess, closed, urlsSeen, sends,
                  idleMap, workerVars, ret, fetchCount, detI, allDone, detSaw,
                  stopPc, result, resultNil, err, panicked >>

\* the stop branch handing out the map built so far
StopResultPartial(m) == [res |-> m, nil |-> FALSE, err |-> "execution terminated"]

\* what the stop branch returns: (nil, "execution terminated")
StopResult(m) == [res |-> EmptyMap, nil |-> TRUE, err |-> "execution terminated"]

\* return nil, errors.New("execution terminated")
ReturnErr ==
  /\ ~panicked
  /\ orchPc = "returnErr"
  /\ result' = StopResult(ret).res
  /\ resultNil' = StopResult(ret).nil
  /\ err' = StopResult(ret).err
  /\ orchPc' = "returned"
  /\ UNCHANGED << confVars, listResult, recVars, startI, urlsToProcess, closed, urlsSeen, sends,
                  idleMap, workerVars, ret, fetchCount, detVars, stopPc,
                  panicked >>

\* ------------------------------------------------------------ a worker
\* for u := range urlsToProcess: a URL is there
Receive(w) ==
  /\ ~panicked
  /\ wPc[w] = "recv"
  /\ Len(urlsToProcess) > 0
  /\ wUrl' = [wUrl EXCEPT ![w] = Head(urlsToProcess)]
  /\ urlsToProcess' = Tail(urlsToProcess)
  /\ wPc' = [wPc EXCEPT ![w] = "markBusy"]
  /\ UNCHANGED << confVars, listResult, recVars, orchVars, closed, urlsSeen, sends, idleMap, wIdx,
                  ret, fetchCount, detVars, stopPc, panicked >>

\* for u := range urlsToProcess: the channel is closed and drained
Exit(w) ==
  /\ ~panicked
  /\ wPc[w] = "recv"
  /\ Len(urlsToProcess) = 0
  /\ closed
  /\ wPc' = [wPc EXCEPT ![w] = "exited"]
  /\ UNCHANGED << confVars, listResult, recVars, orchVars, urlsToProcess, closed, urlsSeen, sends,
                  idleMap, wUrl, wIdx, ret, fetchCount, detVars, stopPc,
                  panicked >>

\* idleMap.MarkBusy(workerNo), then the call of extractLinks(readCtx, u)
Busy(w) ==
  /\ ~panicked
  /\ wPc[w] = "markBusy"
  /\ idleMap' = MarkBusy(idleMap, w)
  /\ fetchCount' = [fetchCount EXCEPT ![wUrl[w]] = @ + 1]
  /\ wPc' = [wPc EXCEPT ![w] = "fetch"]
  /\ UNCHANGED << confVars, listResult, recVars, orchVars, urlsToProcess, closed, urlsSeen, sends,
                  wUrl, wIdx, ret, detVars, stopPc, panicked >>

\* the error branch storing the (nil) links all the same
FetchErrorStored(w) ==
  /\ ~panicked
  /\ wPc[w] = "fetch"
  /\ wUrl[w] \notin DOMAIN linkStructure
  /\ ret' = [x \in (DOMAIN ret) \cup {wUrl[w]} |->
               IF x = wUrl[w] THEN << >> ELSE ret[x]]
  /\ wPc' = [wPc EXCEPT ![w] = "markIdle"]
  /\ UNCHANGED << confVars, listResult, recVars, orchVars, urlsToProcess, closed, urlsSeen, sends,
                  idleMap, wUrl, wIdx, fetchCount, detVars, stopPc, panicked >>

\* extractLinks returns an error: nothing is stored, on to MarkIdle
FetchError(w) ==
  /\ ~panicked
  /\ wPc[w] = "fetch"
  /\ wUrl[w] \notin DOMAIN linkStructure
  /\ wPc' = [wPc EXCEPT ![w] = "markIdle"]
  /\ UNCHANGED << confVars, listResult, recVars, orchVars, urlsToProcess, closed, urlsSeen, sends,
                  idleMap, wUrl, wIdx, ret, fetchCount, detVars, stopPc,
                  panicked >>

\* extractLinks returns docLinks: ret[u] = docLinks under retLock
FetchOK(w) ==
  /\ ~panicked
  /\ wPc[w] = "fetch"
  /\ wUrl[w] \in DOMAIN linkStructure
  /\ ret' = StoreLinks(ret, wUrl[w], linkStructure[wUrl[w]])
  /\ IF Len(linkStructure[wUrl[w]]) = 0
       THEN /\ wPc' = [wPc EXCEPT ![w] = "markIdle"]
            /\ wIdx' = wIdx
       ELSE /\ wPc' = [wPc EXCEPT ![w] = "links"]
            /\ wIdx' = [wIdx EXCEPT ![w] = 1]
  /\ UNCHANGED << confVars, listResult, recVars, orchVars, urlsToProcess, closed, urlsSeen, sends,
                  idleMap, wUrl, fetchCount, detVars, stopPc, panicked >>

\* the link loop admitting every link
AdmissibleAnything(link) == TRUE

\* the link loop without the test of link.LinkType
AdmissibleAnyType(link) == shouldIncludeURL(link.LinkTarget)

\* the link loop without the call of shouldIncludeURL
AdmissibleAnyHyperlink(link) == link.LinkType = LinkTypeA

\* whether the link loop hands a link to appendURL
Admissible(link) ==
  link.LinkType = LinkTypeA /\ shouldIncludeURL(link.LinkTarget)

\* the link loop sending on urlsToProcess itself instead of spawning a send
NextLinkBlocking(w) ==
  /\ ~panicked
  /\ wPc[w] = "links"
  /\ LET docLinks == linkStructure[wUrl[w]]
         link == docLinks[wIdx[w]]
         new == Admissible(link) /\ link.LinkTarget \notin urlsSeen
     IN /\ new => Len(urlsToProcess) < workerCount /\ ~closed
        /\ urlsSeen' = IF new THEN urlsSeen \cup {link.LinkTarget} ELSE urlsSeen
        /\ urlsToProcess' = IF new THEN Append(urlsToProcess, link.LinkTarget)
                                   ELSE urlsToProcess
        /\ IF wIdx[w] = Len(docLinks)
             THEN /\ wPc' = [wPc EXCEPT ![w] = "markIdle"]
                  /\ wIdx' = [wIdx EXCEPT ![w] = 0]
             ELSE /\ wPc' = wPc
                  /\ wIdx' = [wIdx EXCEPT ![w] = @ + 1]
  /\ UNCHANGED << confVars, listResult, recVars, orchVars, closed, sends, idleMap, wUrl,
                  ret, fetchCount, detVars, stopPc, panicked >>

\* one iteration of  for _, link := range docLinks
NextLink(w) ==
  /\ ~panicked
  /\ wPc[w] = "links"
  /\ LET docLinks == linkStructure[wUrl[w]]
         link == docLinks[wIdx[w]]
         after == IF Admissible(link)
                    THEN appendURL(urlsSeen, sends, link.LinkTarget)
                    ELSE [seen |-> urlsSeen, sends |-> sends]
     IN /\ urlsSeen' = after.seen
        /\ sends' = after.sends
        /\ IF wIdx[w] = Len(docLinks)
             THEN /\ wPc' = [wPc EXCEPT ![w] = "markIdle"]
                  /\ wIdx' = [wIdx EXCEPT ![w] = 0]
             ELSE /\ wPc' = wPc
                  /\ wIdx' = [wIdx EXCEPT ![w] = @ + 1]
  /\ UNCHANGED << confVars, listResult, recVars, orchVars, urlsToProcess, closed, idleMap, wUrl,
                  ret, fetchCount, detVars, stopPc, panicked >>

\* idleMap.MarkIdle(workerNo), and back to the range
Idle(w) ==
  /\ ~panicked
  /\ wPc[w] = "markIdle"
  /\ idleMap' = MarkIdle(idleMap, w)
  /\ wPc' = [wPc EXCEPT ![w] = "recv"]
  /\ wUrl' = [wUrl EXCEPT ![w] = ""]
  /\ UNCHANGED << confVars, listResult, recVars, orchVars, urlsToProcess, closed, urlsSeen, sends,
                  wIdx, ret, fetchCount, detVars, stopPc, panicked >>

\* ------------------------------------- the goroutines spawned by appendURL
\* v.urlsToWork <- url: the buffer has room
Enqueue(u) ==
  /\ ~panicked
  /\ sends[u] > 0
  /\ ~closed
  /\ Len(urlsToProcess) < workerCount
  /\ urlsToProcess' = Append(urlsToProcess, u)
  /\ sends' = [sends EXCEPT ![u] = @ - 1]
  /\ UNCHANGED << confVars, listResult, recVars, orchVars, closed, urlsSeen, idleMap, workerVars,
                  ret, fetchCount, detVars, stopPc, panicked >>

\* v.urlsToWork <- url: the channel is closed, the send panics
SendOnClosed(u) ==
  /\ ~panicked
  /\ sends[u] > 0
  /\ closed
  /\ panicked' = TRUE
  /\ UNCHANGED << confVars, listResult, recVars, orchVars, urlsToProcess, closed, urlsSeen, sends,
                  idleMap, workerVars, ret, fetchCount, detVars, stopPc >>

\* --------------------------------------------------- the goroutine of Await
\* case <-ticker.C: allDone := true
Poll ==
  /\ ~panicked
  /\ detPc = "select"
  /\ detPc' = "poll"
  /\ detI' = 0
  /\ allDone' = TRUE
  /\ detSaw' = [w \in WorkerIds |-> "unread"]
  /\ UNCHANGED << confVars, listResult, recVars, orchVars, urlsToProcess, closed, urlsSeen, sends,
                  idleMap, workerVars, ret, fetchCount, stopPc, panicked >>

\* what a poll saw of one worker
Seen(stats) ==
  IF ~stats[2] THEN "busy"
  ELSE IF stats[1] < IdleThreshold THEN "young" ELSE "old"

\* one iteration of  for i := 0; i < workerCount; i++  that is not the last
PollRead ==
  /\ ~panicked
  /\ detPc = "poll"
  /\ detI + 1 < workerCount
  /\ allDone' = PollWorker(allDone, IdleStats(idleMap, detI))
  /\ detSaw' = [detSaw EXCEPT ![detI] = Seen(IdleStats(idleMap, detI))]
  /\ detI' = detI + 1
  /\ UNCHANGED << confVars, listResult, recVars, orchVars, urlsToProcess, closed, urlsSeen, sends,
                  idleMap, workerVars, ret, fetchCount, detPc, stopPc,
                  panicked >>

\* the last iteration, and after it  if allDone { complete <- true; return }:
\* the poller is about to send, or back at its select
PollEnd ==
  /\ ~panicked
  /\ detPc = "poll"
  /\ detI + 1 = workerCount
  /\ LET done == PollWorker(allDone, IdleStats(idleMap, detI))
     IN IF done
          THEN /\ detPc' = "complete"
               /\ detI' = detI + 1
               /\ allDone' = done
               /\ detSaw' = [detSaw EXCEPT
                               ![detI] = Seen(IdleStats(idleMap, detI))]
          ELSE /\ detPc' = "select"
               /\ detI' = 0
               /\ allDone' = FALSE
               /\ detSaw' = [w \in WorkerIds |-> "unread"]
  /\ UNCHANGED << confVars, listResult, recVars, orchVars, urlsToProcess, closed, urlsSeen, sends,
                  idleMap, workerVars, ret, fetchCount, stopPc, panicked >>

\* ------------------------------------------------------------- the caller
\* stop <- true  is started; it blocks until the crawler function receives
RequestStop ==
  /\ ~panicked
  /\ stopPc = "idle"
  /\ stopPc' = "sending"
  /\ UNCHANGED << confVars, listResult, recVars, orchVars, urlsToProcess, closed, urlsSeen, sends,
                  idleMap, workerVars, ret, fetchCount, detVars, panicked >>

\* -------------------------------------------------------------- the clock
\* a tick of the clock: every timestamp in the idle map is one tick older
Tick ==
  /\ ~panicked
  /\ \E w \in WorkerIds : idleMap[w] # Absent /\ idleMap[w] < IdleThreshold
  /\ idleMap' = [w \in WorkerIds |->
                   IF idleMap[w] # Absent /\ idleMap[w] < IdleThreshold
                     THEN idleMap[w] + 1 ELSE idleMap[w]]
  /\ UNCHANGED << confVars, listResult, recVars, orchVars, urlsToProcess, closed, urlsSeen, sends,
                  workerVars, ret, fetchCount, detVars, stopPc, panicked >>

\* ------------------------------------------------------------------ Next
\* a panic ends the process: every step is guarded by ~panicked
Next ==
  \/ StartWorker
  \/ Seed
  \/ Await
  \/ Complete
  \/ ReturnRet
  \/ Stop
  \/ Cancel
  \/ ReturnErr
  \/ \E w \in Workers : Receive(w)
  \/ \E w \in Workers : Exit(w)
  \/ \E w \in Workers : Busy(w)
  \/ \E w \in Workers : FetchError(w)
  \/ \E w \in Workers : FetchOK(w)
  \/ \E w \in Workers : NextLink(w)
  \/ \E w \in Workers : Idle(w)
  \/ \E u \in URLs : Enqueue(u)
  \/ \E u \in URLs : SendOnClosed(u)
  \/ Poll
  \/ PollRead
  \/ PollEnd
  \/ RequestStop
  \/ Tick

Spec == Init /\ [][Next]_vars

\* --------------------------------------------------------------- fairness
\* The steps of one goroutine.  The Go scheduler runs every runnable
\* goroutine again, a blocked channel operation completes once its partner
\* is there (senders blocked on a full buffer are served first come, first
\* served), the ticker keeps firing and the clock keeps advancing.  The
\* caller is free never to send on the stop channel: RequestStop is not fair.
OrchestratorStep ==
  StartWorker \/ Seed \/ Await \/ Complete \/ ReturnRet \/ Stop \/ Cancel
    \/ ReturnErr

WorkerStep(w) ==
  Receive(w) \/ Exit(w) \/ Busy(w) \/ FetchError(w) \/ FetchOK(w)
    \/ NextLink(w) \/ Idle(w)

SenderStep(u) == Enqueue(u) \/ SendOnClosed(u)

PollerStep == Poll \/ PollRead \/ PollEnd

FairSpec ==
  /\ Spec
  /\ WF_vars(OrchestratorStep)
  /\ \A w \in WorkerIds : WF_vars(WorkerStep(w))
  /\ \A u \in URLs : SF_vars(SenderStep(u))
  /\ WF_vars(PollerStep)
  /\ WF_vars(Tick)

\* ================================================= the recursive crawler
\* visitedURLTracker.hasURLBeenSeenPreviously under its lock: the set
\* afterwards and the value returned
hasURLBeenSeenPreviously(seen, url) ==
  [seen |-> seen \cup {url}, was |-> url \in seen]

\* siteMap.addURL
addURL(m, url, links) ==
  [x \in (DOMAIN m) \cup {url} |-> IF x = url THEN links ELSE m[x]]

taskVars == << taskPc, taskIdx, linksToCrawl, taskErr >>
poolVars == << poolPc, poolReq >>
recOrchVars == << recPc, recStartI, recStopI, recResult, recErr >>

\* startWorkerPool: for i := 0; i <= workerCount; i++ { startWorker(i) }
RecStartWorker ==
  /\ recPc = "start"
  /\ recStartI <= workerCount
  /\ poolPc' = [poolPc EXCEPT ![recStartI] = "select"]
  /\ recStartI' = recStartI + 1
  /\ UNCHANGED << confVars, listResult, queueVars, recPc, recStopI, recResult, recErr,
                  ctxDone, visited, siteMap, readCount, taskVars, poolReq >>

\* err := crawl(ctx, startingURL, ...): the root call of crawl begins
RecCrawl ==
  /\ recPc = "start"
  /\ recStartI = workerCount + 1
  /\ recPc' = "crawl"
  /\ taskPc' = [taskPc EXCEPT ![startingURL] = "queueRead"]
  /\ UNCHANGED << confVars, listResult, queueVars, recStartI, recStopI, recResult, recErr,
                  ctxDone, visited, siteMap, readCount, taskIdx, linksToCrawl,
                  taskErr, poolVars >>

\* queueRead's  w.workQueue <- workRequest{...}  meets a worker's
\* case w := <-w.workQueue, and the worker calls readDocument
QueueRead(u, w) ==
  /\ taskPc[u] = "queueRead"
  /\ poolPc[w] = "select"
  /\ poolPc' = [poolPc EXCEPT ![w] = "read"]
  /\ poolReq' = [poolReq EXCEPT ![w] = u]
  /\ readCount' = [readCount EXCEPT ![u] = @ + 1]
  /\ taskPc' = [taskPc EXCEPT ![u] = "select"]
  /\ UNCHANGED << confVars, listResult, queueVars, recOrchVars, ctxDone, visited, siteMap,
                  taskIdx, linksToCrawl, taskErr >>

\* readDocument returns: the worker goes to send on w.complete or w.error
ReadReturns(w) ==
  /\ poolPc[w] = "read"
  /\ poolPc' = [poolPc EXCEPT ![w] = "deliver"]
  /\ UNCHANGED << confVars, listResult, queueVars, recOrchVars, ctxDone, visited, siteMap,
                  readCount, taskVars, poolReq >>

\* what crawl does once its links are through: spawn a crawl per entry of
\* linksToCrawl and wait for them, or return nil
AfterLinks(u, kids) ==
  IF kids = {}
    THEN taskPc' = [taskPc EXCEPT ![u] = "done"]
    ELSE taskPc' = [x \in URLs |->
                      IF x = u THEN "wait"
                      ELSE IF x \in kids THEN "queueRead" ELSE taskPc[x]]

\* w.complete <- res  meets crawl's  case res := <-s: siteMap.addURL(url, res)
DeliverComplete(w) ==
  /\ poolPc[w] = "deliver"
  /\ poolReq[w] \in DOMAIN linkStructure
  /\ taskPc[poolReq[w]] = "select"
  /\ LET u == poolReq[w]
         res == linkStructure[u]
     IN /\ siteMap' = addURL(siteMap, u, res)
        /\ IF Len(res) = 0
             THEN /\ AfterLinks(u, {})
                  /\ taskIdx' = taskIdx
             ELSE /\ taskPc' = [taskPc EXCEPT ![u] = "links"]
                  /\ taskIdx' = [taskIdx EXCEPT ![u] = 1]
  /\ poolPc' = [poolPc EXCEPT ![w] = "select"]
  /\ poolReq' = [poolReq EXCEPT ![w] = ""]
  /\ UNCHANGED << confVars, listResult, queueVars, recOrchVars, ctxDone, visited,
                  readCount, linksToCrawl, taskErr >>

\* w.error <- err  meets crawl's  case err := <-e: return err
DeliverError(w) ==
  /\ poolPc[w] = "deliver"
  /\ poolReq[w] \notin DOMAIN linkStructure
  /\ taskPc[poolReq[w]] = "select"
  /\ taskPc' = [taskPc EXCEPT ![poolReq[w]] = "done"]
  /\ taskErr' = [taskErr EXCEPT ![poolReq[w]] = "read error"]
  /\ poolPc' = [poolPc EXCEPT ![w] = "select"]
  /\ poolReq' = [poolReq EXCEPT ![w] = ""]
  /\ UNCHANGED << confVars, listResult, queueVars, recOrchVars, ctxDone, visited, siteMap,
                  readCount, taskIdx, linksToCrawl >>

\* crawl's  case <-stop: return errors.New("context cancelled")
ContextCancelled(u) ==
  /\ taskPc[u] = "select"
  /\ ctxDone
  /\ taskPc' = [taskPc EXCEPT ![u] = "done"]
  /\ taskErr' = [taskErr EXCEPT ![u] = "context cancelled"]
  /\ UNCHANGED << confVars, listResult, queueVars, recOrchVars, ctxDone, visited, siteMap,
                  readCount, taskIdx, linksToCrawl, poolVars >>

\* one iteration of crawl's  for _, l := range res; after the last one the
\* spawning of the crawls of linksToCrawl
CrawlLink(u) ==
  /\ taskPc[u] = "links"
  /\ LET res == linkStructure[u]
         l == res[taskIdx[u]]
         look == hasURLBeenSeenPreviously(visited, l.LinkTarget)
         new == Admissible(l) /\ ~look.was
         kids == IF new THEN linksToCrawl[u] \cup {l.LinkTarget}
                        ELSE linksToCrawl[u]
     IN /\ visited' = IF Admissible(l) THEN look.seen ELSE visited
        /\ linksToCrawl' = [linksToCrawl EXCEPT ![u] = kids]
        /\ IF taskIdx[u] = Len(res)
             THEN /\ AfterLinks(u, kids)
                  /\ taskIdx' = [taskIdx EXCEPT ![u] = 0]
             ELSE /\ taskPc' = taskPc
                  /\ taskIdx' = [taskIdx EXCEPT ![u] = @ + 1]
  /\ UNCHANGED << confVars, listResult, queueVars, recOrchVars, ctxDone, siteMap,
                  readCount, taskErr, poolVars >>

\* crawl returning nil without wg.Wait()
JoinWithoutWait(u) ==
  /\ taskPc[u] = "wait"
  /\ taskPc' = [taskPc EXCEPT ![u] = "done"]
  /\ UNCHANGED << confVars, listResult, queueVars, recOrchVars, ctxDone, visited, siteMap,
                  readCount, taskIdx, linksToCrawl, taskErr, poolVars >>

\* wg.Wait() returns: every spawned crawl has called wg.Done(); return nil
Join(u) ==
  /\ taskPc[u] = "wait"
  /\ \A k \in linksToCrawl[u] : taskPc[k] = "done"
  /\ taskPc' = [taskPc EXCEPT ![u] = "done"]
  /\ UNCHANGED << confVars, listResult, queueVars, recOrchVars, ctxDone, visited, siteMap,
                  readCount, taskIdx, linksToCrawl, taskErr, poolVars >>

\* return siteMap.siteMap, err: the values are fixed, then the deferred
\* stopWorkers() runs
CrawlReturns ==
  /\ recPc = "crawl"
  /\ taskPc[startingURL] = "done"
  /\ recResult' = siteMap
  /\ recErr' = taskErr[startingURL]
  /\ recPc' = "stopWorkers"
  /\ recStopI' = 0
  /\ UNCHANGED << confVars, listResult, queueVars, recStartI, ctxDone, visited, siteMap,
                  readCount, taskVars, poolVars >>

\* stopWorkers: stop <- true  meets the worker's  case <-stop: return
StopWorker ==
  /\ recPc = "stopWorkers"
  /\ recStopI < recStartI
  /\ poolPc[recStopI] = "select"
  /\ poolPc' = [poolPc EXCEPT ![recStopI] = "stopped"]
  /\ recStopI' = recStopI + 1
  /\ UNCHANGED << confVars, listResult, queueVars, recPc, recStartI, recResult, recErr,
                  ctxDone, visited, siteMap, readCount, taskVars, poolReq >>

\* stopWorkers is through its loop: the crawler function returns
RecReturn ==
  /\ recPc = "stopWorkers"
  /\ recStopI = recStartI
  /\ recPc' = "returned"
  /\ UNCHANGED << confVars, listResult, queueVars, recStartI, recStopI, recResult, recErr,
                  ctxDone, visited, siteMap, readCount, taskVars, poolVars >>

\* the caller calls the stop function: the context is cancelled
CancelContext ==
  /\ ~ctxDone
  /\ ctxDone' = TRUE
  /\ UNCHANGED << confVars, listResult, queueVars, recOrchVars, visited, siteMap,
                  readCount, taskVars, poolVars >>

RecNext ==
  \/ RecStartWorker
  \/ RecCrawl
  \/ \E u \in URLs : \E w \in PoolIds : QueueRead(u, w)
  \/ \E w \in PoolIds : ReadReturns(w)
  \/ \E w \in PoolIds : DeliverComplete(w)
  \/ \E w \in PoolIds : DeliverError(w)
  \/ \E u \in URLs : ContextCancelled(u)
  \/ \E u \in URLs : CrawlLink(u)
  \/ \E u \in URLs : Join(u)
  \/ CrawlReturns
  \/ StopWorker
  \/ RecReturn
  \/ CancelContext

RecSpec == Init /\ [][RecNext]_vars

\* The steps of one goroutine of the recursive crawler.  Every runnable
\* goroutine runs again and a channel operation completes once its partner
\* is there.  The caller is free never to call stop: CancelContext is not
\* fair.
RecOrchestratorStep ==
  RecStartWorker \/ RecCrawl \/ CrawlReturns \/ StopWorker \/ RecReturn

CrawlStep(u) ==
  \/ \E w \in PoolIds : QueueRead(u, w)
  \/ \E w \in PoolIds : poolReq[w] = u /\ (DeliverComplete(w) \/ DeliverError(w))
  \/ ContextCancelled(u)
  \/ CrawlLink(u)
  \/ Join(u)

PoolStep(w) == ReadReturns(w)

FairRecSpec ==
  /\ RecSpec
  /\ WF_vars(RecOrchestratorStep)
  /\ \A u \in URLs : WF_vars(CrawlStep(u))
  /\ \A w \in PoolIds : WF_vars(PoolStep(w))

\* ================================================ the string-list crawler
\* NewCrawler of crawl.go: the queue / idle-polling crawler over pages that
\* are lists of strings.  Its start loop, seed send, select, worker loop
\* head and tail, spawned sends and idle poller are the statements modelled
\* above (the idle map and the URL set are locals under a mutex instead of
\* idleWorkerTracker and urlTracker); what differs is the reader's result,
\* the link loop and what is returned.

\* what the reader gives for a page: the href of every a tag, in order
ListDocLinks(u) ==
  LET as == SelectSeq(linkStructure[u], IsHyperlink)
  IN [i \in 1 .. Len(as) |-> as[i].LinkTarget]

\* for i := 0; i < workerCount; i++ { idleMap[i] = time.Now(); startWorker(i) }
ListStartWorker == StartWorker
\* urlsToProcess <- url
ListSeed == Seed
\* the go func() of the idle watcher is started, the crawler is at its select
ListAwait == Await
\* case <-workersIdle: close(urlsToProcess)
ListComplete == Complete
\* case <-stopSignal: close(urlsToProcess)
ListStop == Stop
\* stopWorkerWatcherSignal <- true
ListCancel == Cancel
\* return nil, errors.New("execution terminated")
ListReturnErr == ReturnErr
\* for u := range urlsToProcess
ListReceive(w) == Receive(w)
ListExit(w) == Exit(w)
\* delete(idleMap, workerNo) under idleMapLock, then extractLinks(readCtx, u)
ListBusy(w) == Busy(w)
\* err != nil: the warning is logged
ListFetchError(w) == FetchError(w)
\* idleMap[workerNo] = time.Now() under idleMapLock
ListIdle(w) == Idle(w)
\* go func(toAdd string) { urlsToProcess <- toAdd }(l)
ListEnqueue(u) == Enqueue(u)
ListSendOnClosed(u) == SendOnClosed(u)
\* the idle watcher: case <-ticker.C and its loop over the workers
ListPoll == Poll
ListPollRead == PollRead
ListPollEnd == PollEnd
\* the caller's stop <- true
ListRequestStop == RequestStop
ListTick == Tick

\* extractLinks returns docLinks, nil: on to the link loop
ListFetchOK(w) ==
  /\ ~panicked
  /\ wPc[w] = "fetch"
  /\ wUrl[w] \in DOMAIN linkStructure
  /\ IF Len(ListDocLinks(wUrl[w])) = 0
       THEN /\ wPc' = [wPc EXCEPT ![w] = "markIdle"]
            /\ wIdx' = wIdx
       ELSE /\ wPc' = [wPc EXCEPT ![w] = "links"]
            /\ wIdx' = [wIdx EXCEPT ![w] = 1]
  /\ UNCHANGED << confVars, listResult, recVars, orchVars, urlsToProcess,
                  closed, urlsSeen, sends, idleMap, wUrl, ret, fetchCount,
                  detVars, stopPc, panicked >>

\* one iteration of  for _, l := range docLinks: if shouldIncludeURL(l),
\* under urlsLock a URL not seen yet gets its send spawned and is marked seen
ListNextLink(w) ==
  /\ ~panicked
  /\ wPc[w] = "links"
  /\ LET docLinks == ListDocLinks(wUrl[w])
         l == docLinks[wIdx[w]]
         new == shouldIncludeURL(l) /\ l \notin urlsSeen
     IN /\ urlsSeen' = IF new THEN urlsSeen \cup {l} ELSE urlsSeen
        /\ sends' = IF new THEN [sends EXCEPT ![l] = @ + 1] ELSE sends
        /\ IF wIdx[w] = Len(docLinks)
             THEN /\ wPc' = [wPc EXCEPT ![w] = "markIdle"]
                  /\ wIdx' = [wIdx EXCEPT ![w] = 0]
             ELSE /\ wPc' = wPc
                  /\ wIdx' = [wIdx EXCEPT ![w] = @ + 1]
  /\ UNCHANGED << confVars, listResult, recVars, orchVars, urlsToProcess,
                  closed, idleMap, wUrl, ret, fetchCount, detVars, stopPc,
                  panicked >>

\* ret := make([]string, 0); for u := range urlsSeen { ret = append(ret, u) };
\* return ret, nil
ListReturn ==
  /\ ~panicked
  /\ orchPc = "returnRet"
  /\ listResult' = [u \in URLs |-> IF u \in urlsSeen THEN 1 ELSE 0]
  /\ resultNil' = FALSE
  /\ err' = ""
  /\ orchPc' = "returned"
  /\ UNCHANGED << confVars, recVars, startI, result, urlsToProcess, closed,
                  urlsSeen, sends, idleMap, workerVars, ret, fetchCount,
                  detVars, stopPc, panicked >>

ListNext ==
  \/ ListStartWorker
  \/ ListSeed
  \/ ListAwait
  \/ ListComplete
  \/ ListReturn
  \/ ListStop
  \/ ListCancel
  \/ ListReturnErr
  \/ \E w \in Workers : ListReceive(w)
  \/ \E w \in Workers : ListExit(w)
  \/ \E w \in Workers : ListBusy(w)
  \/ \E w \in Workers : ListFetchError(w)
  \/ \E w \in Workers : ListFetchOK(w)
  \/ \E w \in Workers : ListNextLink(w)
  \/ \E w \in Workers : ListIdle(w)
  \/ \E u \in URLs : ListEnqueue(u)
  \/ \E u \in URLs : ListSendOnClosed(u)
  \/ ListPoll
  \/ ListPollRead
  \/ ListPollEnd
  \/ ListRequestStop
  \/ ListTick

ListSpec == Init /\ [][ListNext]_vars

\* ------------------------------------------------- either crawler
\* A run of one of the two crawlers: the first step decides which, and the
\* other one stays as Init left it.
QueueUntouched == orchPc = "start" /\ startI = 0 /\ stopPc = "idle"
RecUntouched == recPc = "start" /\ recStartI = 0 /\ ~ctxDone

EitherNext ==
  \/ RecUntouched /\ StartWorker
  \/ RecUntouched /\ Seed
  \/ RecUntouched /\ Await
  \/ RecUntouched /\ Complete
  \/ RecUntouched /\ ReturnRet
  \/ RecUntouched /\ Stop
  \/ RecUntouched /\ Cancel
  \/ RecUntouched /\ ReturnErr
  \/ RecUntouched /\ \E w \in Workers : Receive(w)
  \/ RecUntouched /\ \E w \in Workers : Exit(w)
  \/ RecUntouched /\ \E w \in Workers : Busy(w)
  \/ RecUntouched /\ \E w \in Workers : FetchError(w)
  \/ RecUntouched /\ \E w \in Workers : FetchOK(w)
  \/ RecUntouched /\ \E w \in Workers : NextLink(w)
  \/ RecUntouched /\ \E w \in Workers : Idle(w)
  \/ RecUntouched /\ \E u \in URLs : Enqueue(u)
  \/ RecUntouched /\ \E u \in URLs : SendOnClosed(u)
  \/ RecUntouched /\ Poll
  \/ RecUntouched /\ PollRead
  \/ RecUntouched /\ PollEnd
  \/ RecUntouched /\ RequestStop
  \/ RecUntouched /\ Tick
  \/ QueueUntouched /\ RecStartWorker
  \/ QueueUntouched /\ RecCrawl
  \/ QueueUntouched /\ \E u \in URLs : \E w \in PoolIds : QueueRead(u, w)
  \/ QueueUntouched /\ \E w \in PoolIds : ReadReturns(w)
  \/ QueueUntouched /\ \E w \in PoolIds : DeliverComplete(w)
  \/ QueueUntouched /\ \E w \in PoolIds : DeliverError(w)
  \/ QueueUntouched /\ \E u \in URLs : ContextCancelled(u)
  \/ QueueUntouched /\ \E u \in URLs : CrawlLink(u)
  \/ QueueUntouched /\ \E u \in URLs : Join(u)
  \/ QueueUntouched /\ CrawlReturns
  \/ QueueUntouched /\ StopWorker
  \/ QueueUntouched /\ RecReturn
  \/ QueueUntouched /\ CancelContext

EitherSpec == Init /\ [][EitherNext]_vars

\* ================================================================ claims
Pages == DOMAIN linkStructure

\* the targets the link loop admits from the page of u
Targets(u) ==
  { linkStructure[u][i].LinkTarget : i \in
      { j \in 1 .. Len(linkStructure[u]) : Admissible(linkStructure[u][j]) } }

RECURSIVE Closure(_, _)
Closure(S, n) ==
  IF n = 0 THEN S
  ELSE Closure(S \cup UNION { Targets(u) : u \in S \cap Pages }, n - 1)

\* reachable from the seed through eligible hyperlinks of readable pages
Reachable == Closure({startingURL}, Cardinality(URLs))

\* nothing in the buffer, no send pending, no worker holding a URL
Quiescent ==
  /\ urlsToProcess = << >>
  /\ \A u \in URLs : sends[u] = 0
  /\ \A w \in Workers : wPc[w] \in {"recv", "exited"}

Completed == orchPc = "returned" /\ err = ""

\* C1: in every reachable state of a crawl (any of the link structures, any
\* worker count, any interleaving) extractLinks has been called at most once
\* for each URL, the seed that pages link back to included.
C1_FetchedAtMostOnce == \A u \in URLs : fetchCount[u] <= 1

\* C1 witness: the test's crawl has run to its end: start, A and B are read,
\* the links back to start and the two links to B were all seen.
C1_Witness ==
  /\ linkStructure = TestLinkStructure
  /\ workerCount = 2
  /\ DOMAIN ret = {"start", "A", "B"}
  /\ fetchCount["B"] = 1
  /\ fetchCount["start"] = 1
  /\ Quiescent

\* C2: every step in which the crawler function receives the poller's
\* completion signal is taken in a quiescent state: the buffer is empty, no
\* spawned send is pending and no worker holds a URL it has pulled.
C2_QuiescentAtSignal == [][Complete => Quiescent]_vars

\* C3: when the crawl has returned without error, the keys of the returned
\* map are exactly the reachable URLs that have a readable page.
C3_ResultIsReachablePages == Completed => DOMAIN result = Reachable \cap Pages

\* every URL marked seen has been handed to extractLinks
AllAdmittedFetched == \A u \in urlsSeen : fetchCount[u] = 1

\* C4: with at least one worker, unless the caller sends the stop signal,
\* the crawl eventually returns its map with no error, and at the step that
\* returns it every URL admitted so far has been read.
C4_CompletesWithAllFetched ==
  /\ [][ReturnRet => AllAdmittedFetched]_vars
  /\ (workerCount >= 1) ~> (stopPc # "idle" \/ Completed)

\* C5: a worker in its link loop is never blocked: whatever the buffer holds
\* and whatever the other workers do, its next iteration can be taken, and
\* so can its MarkIdle once the loop is over.
C5_AdmissionNeverBlocks ==
  ~panicked =>
    \A w \in Workers :
      /\ wPc[w] = "links" => ENABLED NextLink(w)
      /\ wPc[w] = "markIdle" => ENABLED Idle(w)

\* C5 witness: a page gave more new links than the buffer holds: the buffer
\* is full, a spawned send still waits, and every worker has finished its
\* page and is back at the range, marked idle.
C5_Witness ==
  /\ Len(urlsToProcess) = workerCount
  /\ \E u \in URLs : sends[u] > 0
  /\ fetchCount[startingURL] = 1
  /\ \A w \in Workers : wPc[w] = "recv" /\ idleMap[w] # Absent

\* C6: once the crawler function has taken the stop branch of its select,
\* it eventually returns.
C6_StopLeadsToReturn == (orchPc = "cancel") ~> (orchPc = "returned")

\* C7: the crawler function returns either a map and no error, after the
\* completion signal, or nil and "execution terminated", after the stop
\* signal, whatever ret holds by then; it has returned nothing before.
C7_TwoOutcomes ==
  /\ orchPc = "returned" =>
       \/ ~resultNil /\ err = "" /\ detPc = "done" /\ stopPc # "sent"
       \/ resultNil /\ err = "execution terminated" /\ result = EmptyMap
            /\ stopPc = "sent"
  /\ orchPc # "returned" => resultNil /\ err = "" /\ result = EmptyMap

\* C7 witness: the stop branch has returned although pages were recorded.
C7_Witness ==
  /\ orchPc = "returned"
  /\ err = "execution terminated"
  /\ resultNil
  /\ DOMAIN ret # {}

\* C8: whenever the poller has decided to signal completion, each of the
\* workerCount workers was read, in that same poll, as idle with a
\* timestamp at least the threshold old; while a poll is under way allDone
\* is still set only if every worker read so far was.
C8_SignalOnlyWhenAllIdleLong ==
  /\ detPc = "complete" => detI = workerCount /\ allDone
  /\ (detPc \in {"poll", "complete"} /\ allDone) =>
       \A w \in 0 .. (detI - 1) : detSaw[w] = "old"

\* C8 witness: the poller signals with two workers, after a page was read.
C8_Witness ==
  /\ detPc = "complete"
  /\ workerCount = 2
  /\ DOMAIN ret # {}
  /\ urlsToProcess = << >>

\* C9: a URL whose read fails is never a key of ret or of the returned map,
\* its read is never repeated, no worker leaves its loop before the channel
\* is closed, and the crawl returns an error only after the stop signal.
C9_FailedReadNotFatal ==
  /\ \A u \in URLs \ Pages :
       u \notin DOMAIN ret /\ u \notin DOMAIN result /\ fetchCount[u] <= 1
  /\ \A w \in Workers : wPc[w] = "exited" => closed
  /\ (orchPc = "returned" /\ stopPc # "sent") => err = "" /\ ~resultNil

\* C9 witness: with one worker the reads of B and of Z have failed, the
\* worker went on to the other URLs and the crawl has returned the pages
\* that could be read, without error.
C9_Witness ==
  /\ linkStructure = FanOutLinkStructure
  /\ workerCount = 1
  /\ fetchCount["B"] = 1
  /\ fetchCount["Z"] = 1
  /\ Completed
  /\ DOMAIN result = {"start", "A"}

\* C10: a URL other than the seed that fails shouldIncludeURL is never
\* marked seen, never read and never a key of ret.
C10_IneligibleNeverFetched ==
  \A u \in URLs \ {startingURL} :
    ~shouldIncludeURL(u) =>
      /\ u \notin urlsSeen
      /\ sends[u] = 0
      /\ fetchCount[u] = 0
      /\ u \notin DOMAIN ret
      /\ u \notin DOMAIN result

\* C10 witness: page B, which links to W, has been read and its links have
\* all been through the link loop.
C10_Witness ==
  /\ linkStructure = TestLinkStructure
  /\ "B" \in DOMAIN ret
  /\ \A w \in Workers : wUrl[w] # "B"

\* the targets that occur in the link structure in embedded-resource links
\* only: never in a hyperlink, and not the seed
EmbeddedOnly ==
  { u \in URLs \ {startingURL} :
      /\ \E p \in Pages : \E i \in 1 .. Len(linkStructure[p]) :
           /\ linkStructure[p][i].LinkTarget = u
           /\ linkStructure[p][i].LinkType = LinkTypeImg
      /\ \A p \in Pages : \A i \in 1 .. Len(linkStructure[p]) :
           linkStructure[p][i].LinkTarget = u
             => linkStructure[p][i].LinkType = LinkTypeImg }

\* C11: a target found in embedded-resource links only is never marked seen,
\* never handed to a send, never in the buffer, never read and never a key
\* of ret or of the returned map, while every embedded-resource link of a
\* recorded page stands at its place in that page's value list.
C11_EmbeddedRecordedNotCrawled ==
  /\ \A u \in EmbeddedOnly :
       /\ u \notin urlsSeen
       /\ sends[u] = 0
       /\ \A i \in 1 .. Len(urlsToProcess) : urlsToProcess[i] # u
       /\ \A w \in Workers : wUrl[w] # u
       /\ fetchCount[u] = 0
       /\ u \notin DOMAIN ret
       /\ u \notin DOMAIN result
  /\ \A p \in DOMAIN ret : \A i \in 1 .. Len(linkStructure[p]) :
       linkStructure[p][i].LinkType = LinkTypeImg
         => i <= Len(ret[p]) /\ ret[p][i] = linkStructure[p][i]

\* C11 witness: the seed's page, which embeds IMG, is recorded, its link loop
\* is over and the crawl went on to read another page.
C11_Witness ==
  /\ linkStructure = TestLinkStructure
  /\ "IMG" \in EmbeddedOnly
  /\ "start" \in DOMAIN ret
  /\ ret["start"][2] = Link(LinkTypeImg, "IMG")
  /\ \A w \in Workers : wUrl[w] # "start"
  /\ "A" \in DOMAIN ret

\* the workers whose goroutine has been started
Started == { w \in WorkerIds : wPc[w] # "notStarted" }

\* the calls of extractLinks that have not returned yet
InFlight == { w \in WorkerIds : wPc[w] = "fetch" }

\* C12: while the start loop runs the workers 0 .. i-1 are started, from
\* then on exactly the workers 0 .. workerCount-1 for the rest of the crawl,
\* and at most workerCount calls of extractLinks are in flight.
C12_ExactlyWorkerCountWorkers ==
  /\ orchPc = "start" => Started = 0 .. (startI - 1) /\ startI <= workerCount
  /\ orchPc # "start" => Started = Workers
  /\ Cardinality(Started) <= workerCount
  /\ Cardinality(InFlight) <= workerCount

\* C12 witness: with two workers, two calls of extractLinks are in flight.
C12_Witness ==
  /\ workerCount = 2
  /\ Started = {0, 1}
  /\ Cardinality(InFlight) = 2

\* C13: once the crawl has returned its map with no stop signal issued, a
\* stop signal issued from then on is eventually taken off the sender's hands
\* (the goroutine running stop <- true goes on), and what the crawl returned
\* stays as it is.
C13_StopAfterCompletionIsNoOp ==
  /\ []((Completed /\ stopPc = "idle") =>
          [](stopPc = "sending" => <>(stopPc = "sent")))
  /\ [][orchPc = "returned" =>
          result' = result /\ resultNil' = resultNil /\ err' = err]_vars

\* C14: a crawl called with workerCount = 0 eventually returns, with nil and
\* an error, and it has sent nothing on the channel and read nothing.
C14_ZeroWorkersRejected ==
  (workerCount = 0) ~>
    /\ orchPc = "returned"
    /\ resultNil
    /\ err # ""
    /\ urlsToProcess = << >>
    /\ \A u \in URLs : fetchCount[u] = 0

\* C15: every value of ret, and of the returned map, is the whole link
\* sequence the reader gave for its key, in the reader's order; an entry of
\* ret never changes or disappears; and ret changes only in the step in which
\* a worker stores the links of the URL it has just read, a key not yet in ret.
C15_EntryWrittenOnce ==
  /\ [](\A u \in DOMAIN ret : u \in Pages /\ ret[u] = linkStructure[u])
  /\ [](\A u \in DOMAIN result : u \in Pages /\ result[u] = linkStructure[u])
  /\ [][\A u \in DOMAIN ret : u \in DOMAIN ret' /\ ret'[u] = ret[u]]_vars
  /\ [][ret' # ret =>
          \E w \in Workers :
            /\ FetchOK(w)
            /\ wUrl[w] \notin DOMAIN ret
            /\ DOMAIN ret' = (DOMAIN ret) \cup {wUrl[w]}]_vars

\* C15 witness: the test's crawl has returned its three pages; the seed's
\* entry holds its hyperlinks and its embedded resource, B's entry the link
\* to the ineligible W.
C15_Witness ==
  /\ linkStructure = TestLinkStructure
  /\ Completed
  /\ DOMAIN result = {"start", "A", "B"}
  /\ Len(result["start"]) = 3
  /\ result["start"][2].LinkType = LinkTypeImg
  /\ result["B"] = << Link(LinkTypeA, "W") >>

\* C16: the channel is closed only in a step of the crawler function's
\* select, the one that receives the completion signal or the one that
\* receives the stop signal, that step is taken with the channel still open,
\* and a closed channel stays closed.
C16_ClosedOnceByOrchestrator ==
  /\ [](closed =>
          \/ /\ detPc = "done"
             /\ stopPc # "sent"
             /\ orchPc \in {"returnRet", "returned"}
          \/ /\ stopPc = "sent"
             /\ orchPc \in {"cancel", "returnErr", "returned"})
  /\ [][closed' # closed => ~closed /\ (Complete \/ Stop)]_vars
  /\ [][(Complete \/ Stop) => ~closed /\ closed']_vars

\* C16 witness: after the stop signal the channel is closed, both workers
\* have drained it and left their loops, and the crawl has returned.
C16_Witness ==
  /\ closed
  /\ stopPc = "sent"
  /\ workerCount = 2
  /\ \A w \in Workers : wPc[w] = "exited"
  /\ orchPc = "returned"

\* C17: after the crawler function has received the stop signal, no step
\* adds a URL to urlsSeen and no step spawns a send.
C17_NoAdmissionAfterCancel ==
  [][stopPc = "sent" =>
       /\ urlsSeen' = urlsSeen
       /\ \A u \in URLs : sends'[u] <= sends[u]]_vars

\* C18: no send on the closed channel ever panics, and while the channel is
\* closed no spawned send is pending.
C18_NoSendOnClosed ==
  /\ ~panicked
  /\ closed => \A u \in URLs : sends[u] = 0

\* C19: after the crawler function has closed the channel on the stop
\* branch, no worker calls extractLinks any more.
C19_NoFetchAfterCancel == [][stopPc = "sent" => fetchCount' = fetchCount]_vars

\* C20: a worker that has received a URL and is not through that page's
\* link loop yet is absent from the idle map.
C20_BusyOnPull ==
  \A w \in Workers :
    wPc[w] \in {"markBusy", "fetch", "links"} => idleMap[w] = Absent

\* how often a URL stands in the channel's buffer
InBuffer(u) ==
  Cardinality({ i \in 1 .. Len(urlsToProcess) : urlsToProcess[i] = u })

\* how often a URL has been received from the channel
Pulled(u) ==
  Cardinality({ w \in Workers : wPc[w] = "markBusy" /\ wUrl[w] = u })
    + fetchCount[u]

\* how often a URL has been handed to the channel: as a spawned send still
\* pending, as a buffered value, or as a value already received
Handed(u) == sends[u] + InBuffer(u) + Pulled(u)

\* C21 as stated: every URL of urlsSeen has been handed to the channel
\* exactly once, no other URL ever, and urlsSeen never loses a URL.
C21_AdmissionMarksAndEnqueues ==
  /\ [](\A u \in URLs : Handed(u) = IF u \in urlsSeen THEN 1 ELSE 0)
  /\ [][urlsSeen \subseteq urlsSeen']_vars

\* C21 amended: the same for every URL but the seed, which newURLTracker
\* marks seen when the crawl begins and which the crawler function sends
\* only after its start loop: until that send is done the seed has not been
\* handed over, from then on exactly once.
C21_AdmissionMarksAndEnqueuesButSeed ==
  /\ [](\A u \in URLs \ {startingURL} :
          Handed(u) = IF u \in urlsSeen THEN 1 ELSE 0)
  /\ [](startingURL \in urlsSeen)
  /\ [](Handed(startingURL) = IF orchPc = "start" THEN 0 ELSE 1)
  /\ [][urlsSeen \subseteq urlsSeen']_vars

\* C21 witness: with one worker the seed's page was read and both A and B
\* admitted: A stands in the buffer, the send of B is still pending.
C21_Witness ==
  /\ workerCount = 1
  /\ urlsSeen = {"start", "A", "B"}
  /\ urlsToProcess = << "A" >>
  /\ sends["B"] = 1
  /\ fetchCount["start"] = 1

\* C22: once the channel is closed, every worker eventually has left its
\* loop.
C22_WorkersExitAfterClose ==
  closed ~> (\A w \in Workers : wPc[w] = "exited")

\* C23: the poller's completion signal is received at most once and the
\* poller is gone from then on; and once the crawler function has taken the
\* stop branch its cancel is eventually received by the poller, which ends
\* without the completion signal being received after that.
C23_DetectorSignalsOnceAndAcceptsCancel ==
  /\ [][detPc = "done" => detPc' = "done"]_vars
  /\ [][Complete => detPc' = "done" /\ stopPc # "sent"]_vars
  /\ (orchPc = "cancel") ~> (detPc = "done" /\ orchPc # "cancel")

\* C24 as stated: the entry of worker i in the idle map changes only in a
\* step of worker i (the clock's tick, which makes a timestamp older, is not
\* a write): not in a step of the poller, of another worker or of the
\* crawler function.
C24_SingleWriter ==
  [][\A i \in WorkerIds :
       idleMap'[i] # idleMap[i] => Tick \/ WorkerStep(i)]_vars

\* C24 amended: the entry of worker i changes only in a step of worker i,
\* or in the iteration of the crawler function's start loop that marks
\* worker i idle before it starts that worker.
C24_SingleWriterOnceStarted ==
  [][\A i \in WorkerIds :
       idleMap'[i] # idleMap[i] =>
         \/ Tick
         \/ WorkerStep(i)
         \/ StartWorker /\ startI = i /\ wPc[i] = "notStarted"]_vars

\* C24 witness: a poll has read worker 0, which is idle, and comes to worker
\* 1, which is busy with a page.
C24_Witness ==
  /\ workerCount = 2
  /\ detPc = "poll"
  /\ detI = 1
  /\ idleMap[0] # Absent
  /\ idleMap[1] = Absent
  /\ wPc[1] = "links"

\* every URL the recursive crawler has marked visited has had its crawl
\* return
Settled == \A u \in visited : taskPc[u] = "done"

\* C25: in the recursive crawler, unless stop is called, the crawler
\* function eventually returns; no URL is read twice; crawl returns to it
\* only when the crawl of every visited URL has returned; and what it returns
\* then is the map of the reachable URLs that have a readable page, each with
\* the links the reader gave.
C25_RecursiveCrawlCompletes ==
  /\ [](\A u \in URLs : readCount[u] <= 1)
  /\ [][(CrawlReturns /\ ~ctxDone) => Settled]_vars
  /\ []((recPc = "returned" /\ ~ctxDone) =>
          /\ DOMAIN recResult = Reachable \cap Pages
          /\ \A u \in DOMAIN recResult : recResult[u] = linkStructure[u])
  /\ <>(ctxDone \/ recPc = "returned")

\* C25 witness: the recursive crawl of the test's cyclic link structure has
\* returned its three pages, no stop called.
C25_Witness ==
  /\ linkStructure = TestLinkStructure
  /\ recPc = "returned"
  /\ ~ctxDone
  /\ DOMAIN recResult = {"start", "A", "B"}
  /\ readCount["B"] = 1
  /\ recErr = ""

\* C26: in the recursive crawler, once stop has been called with a read in
\* flight, the crawler function eventually returns.
C26_RecursiveStopLeadsToReturn ==
  (ctxDone /\ \E w \in PoolIds : poolPc[w] = "read") ~> (recPc = "returned")

\* C27: in the recursive crawler, once stop has been called during a crawl,
\* while the crawl of some visited URL has not returned yet, the crawler function never
\* returns anything but an error and a nil map.
C27_RecursiveStopReturnsError ==
  []((ctxDone /\ recPc = "crawl" /\ ~Settled) =>
       [](recPc = "returned" => recErr # "" /\ DOMAIN recResult = {}))

\* C28: in the recursive crawler, with no stop called, the crawler function
\* returns a nil error and the map of the reachable URLs with a readable
\* page, whichever reads failed.
C28_RecursiveReadErrorNotFatal ==
  (recPc = "returned" /\ ~ctxDone) =>
    /\ recErr = ""
    /\ DOMAIN recResult = Reachable \cap Pages

\* the workers of the pool whose goroutine has been started
PoolStarted == { w \in PoolIds : poolPc[w] # "notStarted" }

\* C29: in the recursive crawler, once startWorkerPool is through its loop
\* exactly workerCount workers are started, never more, at most workerCount
\* calls of readDocument are in flight, and when the crawler function has
\* returned every started worker has received its stop.
C29_PoolHasWorkerCountWorkers ==
  /\ Cardinality(PoolStarted) <= workerCount
  /\ recPc # "start" => Cardinality(PoolStarted) = workerCount
  /\ Cardinality({ w \in PoolIds : poolPc[w] = "read" }) <= workerCount
  /\ recPc = "returned" => \A w \in PoolStarted : poolPc[w] = "stopped"

\* the targets of the hyperlinks, on readable pages, that pass the predicate
EligibleTargets ==
  { u \in URLs :
      /\ shouldIncludeURL(u)
      /\ \E p \in Pages : \E i \in 1 .. Len(linkStructure[p]) :
           /\ linkStructure[p][i].LinkTarget = u
           /\ linkStructure[p][i].LinkType = LinkTypeA }

\* C30: in either crawler the set of URLs marked seen holds nothing but the
\* seed and targets of eligible hyperlinks, and every key of the map being
\* built, and of the map returned, is in that set.
C30_VisitedAreSeedAndEligible ==
  /\ urlsSeen \subseteq {startingURL} \cup EligibleTargets
  /\ (DOMAIN ret) \cup (DOMAIN result) \subseteq urlsSeen
  /\ visited \subseteq {startingURL} \cup EligibleTargets
  /\ (DOMAIN siteMap) \cup (DOMAIN recResult) \subseteq visited

\* C30 witness: the recursive crawler has been through the pages of the
\* test's link structure, the one embedding IMG and the one linking to the
\* ineligible W included.
C30_Witness ==
  /\ linkStructure = TestLinkStructure
  /\ visited = {"start", "A", "B"}
  /\ DOMAIN siteMap = {"start", "A", "B"}
  /\ \A u \in visited : taskPc[u] = "done"
  /\ QueueUntouched

\* the link loop of the string-list crawler is through entry i of page p
ListExamined(p, i) ==
  /\ fetchCount[p] >= 1
  /\ \A w \in Workers :
       wUrl[w] = p => \/ wPc[w] = "markIdle"
                      \/ wPc[w] = "links" /\ wIdx[w] > i

\* the eligible URLs found so far as link targets on the pages read
ListDiscovered ==
  { u \in URLs :
      /\ shouldIncludeURL(u)
      /\ \E p \in Pages : \E i \in 1 .. Len(ListDocLinks(p)) :
           ListDocLinks(p)[i] = u /\ ListExamined(p, i) }

\* C31: the slice the string-list crawler returns on completion holds once
\* each eligible URL found as a link target on a page read so far, and
\* nothing else: the starting URL only if a page read links to it.
C31_ListIsDiscoveredTargets ==
  [][ListReturn =>
       \A u \in URLs :
         listResult'[u] = IF u \in ListDiscovered THEN 1 ELSE 0]_vars

====
